---- MODULE Spec2Model ----
(***************************************************************************)
(* The per-path packet worker of the relayer (relayer/src/worker/packet.rs)*)
(* as a state machine: the tick task (spawn_packet_worker) and the command *)
(* task (spawn_packet_cmd_worker) share one path link behind a mutex.      *)
(* Every operation on the link is one step of the task that performs it,   *)
(* so that the interleavings of the two tasks are those of the program.    *)
(***************************************************************************)
EXTENDS Naturals, Sequences, FiniteSets

\* ---------------------------------------------------------------- bounds

\* Commands the supervisor sends over one run.
MaxCmds == 2
\* Revision heights of NewBlock commands range over 0..MaxHeight.
MaxHeight == 1
\* Revision numbers of NewBlock commands range over 0..MaxRevision.
MaxRevision == 0
\* clear_interval ranges over 0..MaxInterval.
MaxInterval == 2
\* Event batches of IbcEvents commands are 1..MaxBatch.
MaxBatch == 1
\* The tick task's resubmit policy is Never or FromInterval(k), k in
\* 1..MaxResubmit.
MaxResubmit == 1
\* Arguments of should_clear_packets evaluated on its own: clear_interval in
\* 0..MaxClearInterval, revision_number in 0..MaxRevisionNumber and
\* revision_height in 0..MaxRevisionHeight.
MaxClearInterval == 5
MaxRevisionNumber == 1
MaxRevisionHeight == 10

\* ----------------------------------------------------------------- types

Tasks == {"tick", "cmd"}

\* The operations of the link's relay path (link.a_to_b) the worker calls.
LinkOps ==
  {"update_schedule", "schedule_packet_clearing", "refresh_schedule",
   "execute_schedule", "process_pending_txs"}

\* The kinds of LinkError a link operation may fail with (spec section 7).
ErrorKinds == {"ClientExpired", "ClientFrozen", "TxBroadcast"}

\* What a fallible link operation returns: Ok or a LinkError.
LinkResults == {"Ok"} \cup ErrorKinds

Heights ==
  [revision_number : 0..MaxRevision, revision_height : 0..MaxHeight]

\* Option::None, for current_command and for the height hint of a clearing.
None == [type |-> "None"]

\* WorkerCmd. In the inbox and in current_command a command travels as
\* [id, cmd], id being the ghost position of the command in the send order.
WorkerCmds ==
  [type : {"IbcEvents"}, batch : 1..MaxBatch]
    \cup [type : {"NewBlock"}, height : Heights]
    \cup [type : {"ClearPendingPackets"}]

\* Resubmit, the retry policy handed to process_pending_txs.
Never == [type |-> "Never"]

FromInterval(k) == [type |-> "FromInterval", k |-> k]

Resubmits == {Never} \cup {FromInterval(k) : k \in 1..MaxResubmit}

\* Resubmit::from_clear_interval: Never for interval 0 (spec section 4.3).
from_clear_interval(interval) ==
  IF interval = 0 THEN Never ELSE FromInterval(interval)

\* What the last step did: task t performed link operation name(arg), which
\* returned res, and the task's step returned ret ("none": the step goes on).
Event(t, name, arg, res, ret) ==
  [task |-> t, name |-> name, arg |-> arg, res |-> res, ret |-> ret]

\* The last step performed no link operation and returned nothing.
NoOp == Event("none", "none", None, "none", "none")

VARIABLES
  clear_interval,         \* u64 parameter of spawn_packet_cmd_worker
  should_clear_on_start,  \* the latch (mut parameter captured by the closure)
  current_command,        \* Option<WorkerCmd> captured by the closure
  inbox,                  \* cmd_rx: commands sent and not yet received
  inbox_closed,           \* the sender side of cmd_rx was dropped
  lock,                   \* holder of the link's mutex: "free", "tick", "cmd"
  pc,                     \* position of each task
  branch,                 \* arm of handle_packet_cmd the command task is in
  status,                 \* each task: "running" or "terminated"
  op,                     \* ghost: the event of the last step
  sent,                   \* ghost: number of commands sent so far
  completed,              \* ghost: ids of the commands handled Ok, in order
  init_clear_on_start,    \* ghost: the latch's value at spawn
  scheduled_ok,           \* ghost: a schedule_packet_clearing returned Ok
  start_cleared,          \* ghost: a latch-branch clearing handler returned Ok
  fatal_count,            \* ghost: Fatal errors emitted by the worker's tasks
  closed_polls,           \* ghost: a step polled the closed, empty inbox
  trace,                  \* ghost: link operations of each task's running step
  sched_done,             \* ghost: an earlier attempt at the current command
                          \* failed after its scheduling call returned Ok
  ordered,                \* the path's channel is ordered
  pkt,                    \* the link's view of each packet sequence
  resubmit,               \* Resubmit parameter of spawn_packet_worker
  eval                    \* ghost: the last evaluation of should_clear_packets

vars ==
  <<clear_interval, should_clear_on_start, current_command, inbox,
    inbox_closed, lock, pc, branch, status, op, sent, completed,
    init_clear_on_start, scheduled_ok, start_cleared, fatal_count,
    closed_polls, trace, sched_done, ordered, pkt, resubmit,
    eval>>

\* ------------------------------------------------------- pure functions

\* foreign_client::HasExpiredOrFrozenError for LinkError.
is_expired_or_frozen_error(e) == e \in {"ClientExpired", "ClientFrozen"}

handle_link_error_in_task_inverted(e) ==
  IF is_expired_or_frozen_error(e) THEN "Ignore" ELSE "Fatal"

\* handle_link_error_in_task: TaskError::Fatal or TaskError::Ignore.
handle_link_error_in_task(e) ==
  IF is_expired_or_frozen_error(e) THEN "Fatal" ELSE "Ignore"

\* The closure given to map_err on execute_schedule's result.
execute_schedule_map_err(e) ==
  IF is_expired_or_frozen_error(e) THEN "Fatal" ELSE "Ignore"

\* Option::Some.
Some(v) == [type |-> "Some", value |-> v]

ModuloDivisor_eager(interval, height) == Some(interval)

\* The divisor of the remainder should_clear_packets computes, None if it
\* computes none: the right operand of && is evaluated only if the left
\* operand holds.
ModuloDivisor(interval, height) ==
  IF interval # 0 THEN Some(interval) ELSE None

should_clear_packets_any_height(interval, height) ==
  /\ interval # 0
  /\ (height.revision_number + height.revision_height) % interval = 0

should_clear_packets_unguarded(interval, height) ==
  interval = 0 \/ height.revision_height % interval = 0

\* should_clear_packets: && evaluates its right side only if the left holds.
should_clear_packets(interval, height) ==
  interval # 0 /\ height.revision_height % interval = 0

Receive_always(cur, q) ==
  IF q # <<>> THEN [cmd |-> Head(q), rest |-> Tail(q)]
  ELSE [cmd |-> cur, rest |-> q]

\* Lines 78-82: try_recv only if there is no current command; an empty or a
\* disconnected inbox both give None (.ok()).
Receive(cur, q) ==
  IF cur = None
  THEN IF q # <<>> THEN [cmd |-> Head(q), rest |-> Tail(q)]
       ELSE [cmd |-> None, rest |-> q]
  ELSE [cmd |-> cur, rest |-> q]

Dispatch_ignoring_latch(cmd, latch, interval) ==
  CASE cmd.type = "IbcEvents" -> "IbcEvents"
    [] cmd.type = "ClearPendingPackets" -> "ClearPendingPackets"
    [] OTHER ->
         IF should_clear_packets(interval, cmd.height) THEN "NewBlockInterval"
         ELSE "NewBlockNoop"

\* handle_packet_cmd's match: the arm taken for cmd.
Dispatch(cmd, latch, interval) ==
  CASE cmd.type = "IbcEvents" -> "IbcEvents"
    [] cmd.type = "ClearPendingPackets" -> "ClearPendingPackets"
    [] OTHER ->
         IF latch THEN "NewBlockStart"
         ELSE IF should_clear_packets(interval, cmd.height)
              THEN "NewBlockInterval"
              ELSE "NewBlockNoop"

FirstOp_clearing_for_events(b) ==
  CASE b = "NewBlockNoop" -> "none"
    [] OTHER -> "schedule_packet_clearing"

\* The first link operation of an arm ("none": the arm returns Ok at once).
FirstOp(b) ==
  CASE b = "IbcEvents" -> "update_schedule"
    [] b = "NewBlockNoop" -> "none"
    [] OTHER -> "schedule_packet_clearing"

\* The argument of the scheduling call made for cmd.
SchedArg(cmd) ==
  CASE cmd.type = "IbcEvents" -> [type |-> "Batch", batch |-> cmd.batch]
    [] cmd.type = "NewBlock" -> [type |-> "Some", height |-> cmd.height]
    [] OTHER -> None

LatchAfter_any_result(latch, b, res) ==
  IF b = "NewBlockStart" THEN FALSE ELSE latch

LatchAfter_any_clearing(latch, b, res) ==
  IF b \in {"NewBlockStart", "ClearPendingPackets"} /\ res = "Ok" THEN FALSE
  ELSE latch

LatchAfter_rearming(latch, b, res) ==
  IF b = "NewBlockStart" /\ res = "Ok" THEN FALSE
  ELSE IF b = "NewBlockInterval" /\ res # "Ok" THEN TRUE
  ELSE latch

\* Lines 126-131: the latch is cleared after handle_clear_packet(..)? only.
LatchAfter(latch, b, res) ==
  IF b = "NewBlockStart" /\ res = "Ok" THEN FALSE ELSE latch

CommandAfter_always_reset(cur, res) == None

\* Lines 85-95: current_command is reset after handle_packet_cmd(..)? only.
CommandAfter(cur, res) == IF res = "Ok" THEN None ELSE cur

\* spawn_background_task's loop: a Fatal error ends the task, Ok and an
\* ignorable error let it run its next step.
StatusAfter(res) == IF res = "Fatal" THEN "terminated" ELSE "running"

CanLock_unguarded(l) == TRUE

\* Mutex::lock: acquired only when no other task holds it.
CanLock(l) == l = "free"

\* ------------------------------------------------------- the path link

\* Packet sequences of the path. Sequence 1 is the packet sent before the
\* worker starts; batch b carries the send-packet event of sequence b + 1.
Seqs == 1..(MaxBatch + 1)

PacketOf(b) == b + 1

\* The link's view of a sequence is one of: "absent" (not sent), "sent"
\* (committed on the source, unscheduled), "queued" (scheduled), "ready"
\* (promoted to the executor's input queue), "inflight" (broadcast, its
\* receipt awaited), "dropped" (its transaction timed out and the operational
\* data was dropped: unscheduled again), "received" (received on the
\* destination, the receipt gathered).

\* The sequences committed on the source that have no operational data.
Unscheduled == {"sent", "dropped"}

\* Scheduler rule 4 (spec section 4.2): on an ordered channel seq n+1 is not
\* promoted until seq n has been observed committed.
Promotable(p, ord, s) ==
  /\ p[s] = "queued"
  /\ ord => \A q \in Seqs : q < s => p[q] = "received"

\* The effect of a fallible link operation that returned r. A failed
\* execute_schedule leaves the operational data scheduled (Retry, spec
\* section 4.5: "will retry").
LinkAfter(p, name, arg, r, ord) ==
  CASE name = "update_schedule" /\ r = "Ok" ->
         [s \in Seqs |->
            IF s = PacketOf(arg.batch) /\ p[s] \in Unscheduled
            THEN "queued" ELSE p[s]]
    [] name = "schedule_packet_clearing" /\ r = "Ok" ->
         [s \in Seqs |-> IF p[s] \in Unscheduled THEN "queued" ELSE p[s]]
    [] name = "refresh_schedule" /\ r = "Ok" ->
         [s \in Seqs |-> IF Promotable(p, ord, s) THEN "ready" ELSE p[s]]
    [] name = "execute_schedule" /\ r = "Ok" ->
         [s \in Seqs |-> IF p[s] = "ready" THEN "inflight" ELSE p[s]]
    [] OTHER -> p

\* What process_pending_txs finds for the in-flight transactions: their
\* receipts, a timeout, or nothing yet.
PendingOutcomes == {"commit", "timeout", "wait"}

\* process_pending_txs(resubmit): the receipt of an in-flight transaction
\* is gathered; on timeout the operational data is dropped under
\* Resubmit::Never and scheduled again under Resubmit::FromInterval.
PendingAfter(p, o, policy) ==
  [s \in Seqs |->
     IF p[s] # "inflight" THEN p[s]
     ELSE CASE o = "commit" -> "received"
            [] o = "timeout" -> IF policy = Never THEN "dropped" ELSE "queued"
            [] OTHER -> p[s]]

\* ----------------------------------------------------------------- init

Init ==
  /\ clear_interval \in 0..MaxInterval
  /\ should_clear_on_start \in BOOLEAN
  /\ init_clear_on_start = should_clear_on_start
  /\ current_command = None
  /\ inbox = <<>>
  /\ inbox_closed = FALSE
  /\ lock = "free"
  /\ pc = [t \in Tasks |-> "idle"]
  /\ branch = "none"
  /\ status = [t \in Tasks |-> "running"]
  /\ op = NoOp
  /\ sent = 0
  /\ completed = <<>>
  /\ scheduled_ok = FALSE
  /\ start_cleared = FALSE
  /\ fatal_count = 0
  /\ closed_polls = FALSE
  /\ trace = [t \in Tasks |-> <<>>]
  /\ sched_done = FALSE
  /\ ordered = FALSE
  /\ pkt = [s \in Seqs |-> "absent"]
  /\ resubmit \in Resubmits
  /\ eval = None

\* ------------------------------------------------------------- returns

\* The command task's closure returns res from arm b: handle_packet_cmd's
\* tail (the latch), the closure's tail (current_command), the guard's drop
\* (the mutex) and spawn_background_task's match on the result.
CmdFinish(b, res) ==
  /\ should_clear_on_start' = LatchAfter(should_clear_on_start, b, res)
  /\ current_command' = CommandAfter(current_command, res)
  /\ lock' = IF lock = "cmd" THEN "free" ELSE lock
  /\ pc' = [pc EXCEPT !["cmd"] = "idle"]
  /\ branch' = "none"
  /\ status' = [status EXCEPT !["cmd"] = StatusAfter(res)]
  /\ completed' =
       IF res = "Ok" THEN Append(completed, current_command.id) ELSE completed
  /\ start_cleared' = (start_cleared \/ (b = "NewBlockStart" /\ res = "Ok"))
  /\ fatal_count' = IF res = "Fatal" THEN fatal_count + 1 ELSE fatal_count

\* The tick task's closure returns res.
TickFinish(res) ==
  /\ lock' = IF lock = "tick" THEN "free" ELSE lock
  /\ pc' = [pc EXCEPT !["tick"] = "idle"]
  /\ status' = [status EXCEPT !["tick"] = StatusAfter(res)]
  /\ fatal_count' = IF res = "Fatal" THEN fatal_count + 1 ELSE fatal_count
  /\ UNCHANGED <<should_clear_on_start, current_command, branch, completed,
                 start_cleared>>

Finish(t, res) == IF t = "cmd" THEN CmdFinish(branch, res) ELSE TickFinish(res)

\* Task t goes on to its next link operation, the mutex still held.
Goto(t, next) ==
  /\ pc' = [pc EXCEPT ![t] = next]
  /\ UNCHANGED <<should_clear_on_start, current_command, lock, branch, status,
                 completed, start_cleared, fatal_count>>

\* Task t performed the fallible link operation name(arg) with result r; its
\* error is returned as ret (map_err and the ? operator).
Call(t, name, arg, r, next, ret) ==
  /\ op' = Event(t, name, arg, r, IF r = "Ok" THEN "none" ELSE ret)
  /\ trace' = [trace EXCEPT ![t] = IF r = "Ok" THEN Append(@, name) ELSE <<>>]
  /\ pkt' = LinkAfter(pkt, name, arg, r, ordered)
  /\ IF r = "Ok" THEN Goto(t, next) ELSE Finish(t, ret)

\* ---------------------------------------------------------- environment

\* The supervisor sends command c to the worker.
Send(c) ==
  /\ ~inbox_closed
  /\ sent < MaxCmds
  /\ inbox' = Append(inbox, [id |-> sent + 1, cmd |-> c])
  /\ sent' = sent + 1
  /\ op' = NoOp
  /\ UNCHANGED <<eval, pkt, ordered, resubmit,
                 clear_interval, should_clear_on_start, current_command,
                 inbox_closed, lock, pc, branch, status, completed,
                 init_clear_on_start, scheduled_ok, start_cleared,
                 fatal_count, closed_polls, trace, sched_done>>

\* The supervisor drops the sender side of the inbox.
CloseInbox ==
  /\ ~inbox_closed
  /\ inbox_closed' = TRUE
  /\ op' = NoOp
  /\ UNCHANGED <<eval, pkt, ordered, resubmit,
                 clear_interval, should_clear_on_start, current_command,
                 inbox, lock, pc, branch, status, sent, completed,
                 init_clear_on_start, scheduled_ok, start_cleared,
                 fatal_count, closed_polls, trace, sched_done>>

\* ------------------------------------------------------------ tick task

\* spawn_packet_worker's step: link.lock(), entering handle_execute_schedule.
TickLock ==
  /\ status["tick"] = "running"
  /\ pc["tick"] = "idle"
  /\ CanLock(lock)
  /\ lock' = "tick"
  /\ pc' = [pc EXCEPT !["tick"] = "refresh_schedule"]
  /\ op' = NoOp
  /\ UNCHANGED <<eval, pkt, ordered, resubmit,
                 clear_interval, should_clear_on_start, current_command,
                 inbox, inbox_closed, branch, status, sent, completed,
                 init_clear_on_start, scheduled_ok, start_cleared,
                 fatal_count, closed_polls, trace, sched_done>>

\* --------------------------------------------------------- command task

\* spawn_packet_cmd_worker's step up to the call of handle_packet_cmd: the
\* read of the inbox; with no command the step returns Ok(Next::Continue).
CmdStep ==
  /\ status["cmd"] = "running"
  /\ pc["cmd"] = "idle"
  /\ LET r == Receive(current_command, inbox) IN
       /\ current_command' = r.cmd
       /\ inbox' = r.rest
       /\ IF r.cmd # None
          THEN /\ pc' = [pc EXCEPT !["cmd"] = "lock"]
               /\ op' = NoOp
               /\ UNCHANGED closed_polls
          ELSE /\ op' = Event("cmd", "none", None, "none", "Ok")
               /\ closed_polls' = (closed_polls \/ inbox_closed)
               /\ UNCHANGED pc
  /\ UNCHANGED <<eval, pkt, ordered, resubmit,
                 clear_interval, should_clear_on_start, inbox_closed, lock,
                 branch, status, sent, completed, init_clear_on_start,
                 scheduled_ok, start_cleared, fatal_count, trace,
                 sched_done>>

CmdDispatch_resuming ==
  /\ status["cmd"] = "running"
  /\ pc["cmd"] = "lock"
  /\ CanLock(lock)
  /\ LET b == Dispatch(current_command.cmd, should_clear_on_start,
                       clear_interval) IN
       IF FirstOp(b) = "none"
       THEN /\ CmdFinish(b, "Ok")
            /\ op' = Event("cmd", "none", SchedArg(current_command.cmd),
                           "none", "Ok")
            /\ UNCHANGED trace
       ELSE /\ lock' = "cmd"
            /\ branch' = b
            /\ pc' = [pc EXCEPT !["cmd"] =
                        IF sched_done THEN "refresh_schedule" ELSE FirstOp(b)]
            /\ trace' = [trace EXCEPT !["cmd"] =
                           IF sched_done THEN <<FirstOp(b)>> ELSE <<>>]
            /\ op' = NoOp
            /\ UNCHANGED <<should_clear_on_start, current_command, status,
                           completed, start_cleared, fatal_count>>
  /\ UNCHANGED <<eval, pkt, ordered, resubmit,
                 clear_interval, inbox, inbox_closed, sent,
                 init_clear_on_start, scheduled_ok, closed_polls, sched_done>>

\* link.lock() and handle_packet_cmd's match on the command: either the arm's
\* scheduling call is next, or (NewBlock, nothing to clear) Ok is returned.
CmdDispatch ==
  /\ status["cmd"] = "running"
  /\ pc["cmd"] = "lock"
  /\ CanLock(lock)
  /\ LET b == Dispatch(current_command.cmd, should_clear_on_start,
                       clear_interval) IN
       IF FirstOp(b) = "none"
       THEN /\ CmdFinish(b, "Ok")
            /\ op' = Event("cmd", "none", SchedArg(current_command.cmd),
                           "none", "Ok")
       ELSE /\ lock' = "cmd"
            /\ branch' = b
            /\ pc' = [pc EXCEPT !["cmd"] = FirstOp(b)]
            /\ op' = NoOp
            /\ UNCHANGED <<should_clear_on_start, current_command, status,
                           completed, start_cleared, fatal_count>>
  /\ UNCHANGED <<eval, pkt, ordered, resubmit,
                 clear_interval, inbox, inbox_closed, sent,
                 init_clear_on_start, scheduled_ok, closed_polls, trace,
                 sched_done>>

\* handle_update_schedule's and handle_clear_packet's first call:
\* update_schedule(batch) or schedule_packet_clearing(height), whose error
\* goes through handle_link_error_in_task and ends the handler.
CmdSchedule ==
  /\ status["cmd"] = "running"
  /\ pc["cmd"] \in {"update_schedule", "schedule_packet_clearing"}
  /\ \E r \in LinkResults :
       /\ Call("cmd", pc["cmd"], SchedArg(current_command.cmd), r,
               "refresh_schedule", handle_link_error_in_task(r))
       /\ scheduled_ok' =
            (scheduled_ok \/ (pc["cmd"] = "schedule_packet_clearing" /\ r = "Ok"))
  /\ UNCHANGED <<eval, ordered, resubmit,
                 clear_interval, inbox, inbox_closed, sent,
                 init_clear_on_start, closed_polls, sched_done>>

\* ------------------------------------------- handle_execute_schedule

\* refresh_schedule().map_err(handle_link_error_in_task)?
Refresh(t) ==
  /\ status[t] = "running"
  /\ pc[t] = "refresh_schedule"
  /\ \E r \in LinkResults :
       /\ Call(t, "refresh_schedule", None, r, "execute_schedule",
               handle_link_error_in_task(r))
       /\ sched_done' = (sched_done \/ (t = "cmd" /\ r # "Ok"))
  /\ UNCHANGED <<eval, ordered, resubmit,
                 clear_interval, inbox, inbox_closed, sent,
                 init_clear_on_start, scheduled_ok, closed_polls>>

Execute_ignoring_error(t) ==
  /\ status[t] = "running"
  /\ pc[t] = "execute_schedule"
  /\ \E r \in LinkResults :
       /\ op' = Event(t, "execute_schedule", None, r, "none")
       /\ pkt' = LinkAfter(pkt, "execute_schedule", None, r, ordered)
       /\ trace' = [trace EXCEPT ![t] = Append(@, "execute_schedule")]
       /\ Goto(t, "process_pending_txs")
  /\ UNCHANGED <<eval, ordered, resubmit,
                 clear_interval, inbox, inbox_closed, sent,
                 init_clear_on_start, scheduled_ok, closed_polls, sched_done>>

\* execute_schedule().map_err(|e| ..)?
Execute(t) ==
  /\ status[t] = "running"
  /\ pc[t] = "execute_schedule"
  /\ \E r \in LinkResults :
       /\ Call(t, "execute_schedule", None, r, "process_pending_txs",
               execute_schedule_map_err(r))
       /\ sched_done' = (sched_done \/ (t = "cmd" /\ r # "Ok"))
  /\ UNCHANGED <<eval, ordered, resubmit,
                 clear_interval, inbox, inbox_closed, sent,
                 init_clear_on_start, scheduled_ok, closed_polls>>

\* The resubmit argument of task t's handle_execute_schedule: the tick task
\* hands on its own parameter, the command task derives it from
\* clear_interval.
ResubmitOf(t) ==
  IF t = "tick" THEN resubmit ELSE from_clear_interval(clear_interval)

\* process_pending_txs(resubmit) returns a summary, never an error; then Ok(()).
Pending(t) ==
  /\ status[t] = "running"
  /\ pc[t] = "process_pending_txs"
  /\ op' = Event(t, "process_pending_txs", None, "Ok", "Ok")
  /\ trace' = [trace EXCEPT ![t] = <<>>]
  /\ sched_done' = (sched_done /\ t # "cmd")
  /\ \E o \in PendingOutcomes : pkt' = PendingAfter(pkt, o, ResubmitOf(t))
  /\ Finish(t, "Ok")
  /\ UNCHANGED <<eval, ordered, resubmit,
                 clear_interval, inbox, inbox_closed, sent,
                 init_clear_on_start, scheduled_ok, closed_polls>>

\* ----------------------------------------------------------------- spec

Next ==
  \/ \E c \in WorkerCmds : Send(c)
  \/ CloseInbox
  \/ TickLock
  \/ CmdStep
  \/ CmdDispatch
  \/ CmdSchedule
  \/ \E t \in Tasks : Refresh(t)
  \/ \E t \in Tasks : Execute(t)
  \/ \E t \in Tasks : Pending(t)

Spec == Init /\ [][Next]_vars

\* ------------------------------------------------- the relayed path

\* A worker spawned on a path where one packet (sequence 1) was sent before
\* the worker started, on an ordered or an unordered channel.
InitRelay ==
  /\ clear_interval \in 0..MaxInterval
  /\ should_clear_on_start \in BOOLEAN
  /\ init_clear_on_start = should_clear_on_start
  /\ current_command = None
  /\ inbox = <<>>
  /\ inbox_closed = FALSE
  /\ lock = "free"
  /\ pc = [t \in Tasks |-> "idle"]
  /\ branch = "none"
  /\ status = [t \in Tasks |-> "running"]
  /\ op = NoOp
  /\ sent = 0
  /\ completed = <<>>
  /\ scheduled_ok = FALSE
  /\ start_cleared = FALSE
  /\ fatal_count = 0
  /\ closed_polls = FALSE
  /\ trace = [t \in Tasks |-> <<>>]
  /\ sched_done = FALSE
  /\ ordered \in BOOLEAN
  /\ pkt = [s \in Seqs |-> IF s = 1 THEN "sent" ELSE "absent"]
  /\ resubmit \in Resubmits
  /\ eval = None

\* A user sends the packet of the next sequence on the source chain.
UserSend(s) ==
  /\ pkt[s] = "absent"
  /\ \A q \in Seqs : q < s => pkt[q] # "absent"
  /\ pkt' = [pkt EXCEPT ![s] = "sent"]
  /\ op' = NoOp
  /\ UNCHANGED <<eval, clear_interval, should_clear_on_start, current_command,
                 inbox, inbox_closed, lock, pc, branch, status, sent,
                 completed, init_clear_on_start, scheduled_ok, start_cleared,
                 fatal_count, closed_polls, trace, sched_done, ordered,
                 resubmit>>

\* The supervisor sends command c; an event batch is one the source chain
\* emitted, i.e. the send-packet event of a packet sent after the start.
SendObserved(c) ==
  /\ c.type = "IbcEvents" => pkt[PacketOf(c.batch)] # "absent"
  /\ Send(c)

NextRelay ==
  \/ \E s \in Seqs : UserSend(s)
  \/ \E c \in WorkerCmds : SendObserved(c)
  \/ CloseInbox
  \/ TickLock
  \/ CmdStep
  \/ CmdDispatch
  \/ CmdSchedule
  \/ \E t \in Tasks : Refresh(t)
  \/ \E t \in Tasks : Execute(t)
  \/ \E t \in Tasks : Pending(t)

\* A step of the tick task, and a step of the command task.
TickTask ==
  TickLock \/ Refresh("tick") \/ Execute("tick") \/ Pending("tick")

CmdTask ==
  \/ CmdStep
  \/ CmdDispatch
  \/ CmdSchedule
  \/ Refresh("cmd")
  \/ Execute("cmd")
  \/ Pending("cmd")

\* The scheduling of the two background tasks: each task runs its next step
\* (its closure is called again after its interval), and a task waiting for
\* the link's mutex gets it although the other task takes it again and again.
TaskFairness == SF_vars(TickTask) /\ SF_vars(CmdTask)

\* A worker spawned with clear_on_start = true.
InitClearOnStart == Init /\ should_clear_on_start = TRUE

\* A step with no Fatal error.
NoFatal(A) == A /\ fatal_count' = 0

\* The runs in which the client neither expires nor is frozen.
NextNoFatal ==
  \/ \E c \in WorkerCmds : Send(c)
  \/ CloseInbox
  \/ TickLock
  \/ CmdStep
  \/ CmdDispatch
  \/ NoFatal(CmdSchedule)
  \/ \E t \in Tasks : NoFatal(Refresh(t))
  \/ \E t \in Tasks : NoFatal(Execute(t))
  \/ \E t \in Tasks : Pending(t)

FairWorker == InitClearOnStart /\ [][NextNoFatal]_vars /\ TaskFairness

\* The worker of ClearPacketTest: clear_on_start = false, clear_interval = 0,
\* on an unordered channel.
InitRelayNoClear ==
  /\ InitRelay
  /\ should_clear_on_start = FALSE
  /\ clear_interval = 0
  /\ ordered = FALSE

FairNoClear == InitRelayNoClear /\ [][NextRelay]_vars /\ TaskFairness

\* The worker of the ClearPacketRecovery tests: clear_on_start = true, on an
\* unordered channel, the policies of both tasks ranging over Resubmits.
InitRelayClearOnStart ==
  /\ InitRelay
  /\ should_clear_on_start = TRUE
  /\ clear_interval \in 0..MaxResubmit
  /\ ordered = FALSE

FairClearOnStart == InitRelayClearOnStart /\ [][NextRelay]_vars /\ TaskFairness

\* The worker with either value of clear_on_start, running without Fatal
\* error, the command task's step called again and again.
FairCommands == Init /\ [][NextNoFatal]_vars /\ SF_vars(CmdTask)

\* A fallible link operation of task t returns Ok.
SchedOk == CmdSchedule /\ op'.res = "Ok"
RefreshOk(t) == Refresh(t) /\ op'.res = "Ok"
ExecuteOk(t) == Execute(t) /\ op'.res = "Ok"

\* process_pending_txs of task t finds the receipt of an in-flight transaction.
Commit(t) ==
  /\ Pending(t)
  /\ \E s \in Seqs : pkt[s] = "inflight" /\ pkt'[s] = "received"

\* No link operation of the command task fails forever.
CmdLinkFair ==
  SF_vars(SchedOk) /\ SF_vars(RefreshOk("cmd")) /\ SF_vars(ExecuteOk("cmd"))

\* No link operation of the tick task fails forever, and the receipt of an
\* in-flight transaction does not stay out forever.
TickLinkFair ==
  /\ SF_vars(RefreshOk("tick"))
  /\ SF_vars(ExecuteOk("tick"))
  /\ SF_vars(Commit("tick"))

\* ---------------------------------------------- should_clear_packets

ClearHeights ==
  [revision_number : 0..MaxRevisionNumber,
   revision_height : 0..MaxRevisionHeight]

\* The worker's state at spawn, for any clear_interval of the wider range.
InitShouldClear ==
  /\ clear_interval \in 0..MaxClearInterval
  /\ should_clear_on_start = FALSE
  /\ init_clear_on_start = FALSE
  /\ current_command = None
  /\ inbox = <<>>
  /\ inbox_closed = FALSE
  /\ lock = "free"
  /\ pc = [t \in Tasks |-> "idle"]
  /\ branch = "none"
  /\ status = [t \in Tasks |-> "running"]
  /\ op = NoOp
  /\ sent = 0
  /\ completed = <<>>
  /\ scheduled_ok = FALSE
  /\ start_cleared = FALSE
  /\ fatal_count = 0
  /\ closed_polls = FALSE
  /\ trace = [t \in Tasks |-> <<>>]
  /\ sched_done = FALSE
  /\ ordered = FALSE
  /\ pkt = [s \in Seqs |-> "absent"]
  /\ resubmit = from_clear_interval(clear_interval)
  /\ eval = None

\* should_clear_packets(clear_interval, height) is evaluated.
Evaluate(height) ==
  /\ eval' = [interval |-> clear_interval,
              height |-> height,
              divisor |-> ModuloDivisor(clear_interval, height),
              result |-> should_clear_packets(clear_interval, height)]
  /\ UNCHANGED <<clear_interval, should_clear_on_start, current_command,
                 inbox, inbox_closed, lock, pc, branch, status, op, sent,
                 completed, init_clear_on_start, scheduled_ok, start_cleared,
                 fatal_count, closed_polls, trace, sched_done, ordered, pkt,
                 resubmit>>

NextShouldClear == \E height \in ClearHeights : Evaluate(height)

SpecShouldClear == InitShouldClear /\ [][NextShouldClear]_vars

\* --------------------------------------------------------------- claims

\* Task t is inside a handler: its next step is an operation on the link.
InHandler(t) == pc[t] \in LinkOps

\* The step is the command task's closure returning.
CmdReturns == pc["cmd"] # "idle" /\ pc'["cmd"] = "idle"

ExpiredOrFrozen == {"ClientExpired", "ClientFrozen"}

\* C1: a command is not consumed until its handler returns Ok: current_command
\* is reset to None only in a step where the handler returned Ok; a handler
\* that returns a non-fatal error leaves it in place, and the next step of
\* the command task takes that same command to the dispatch without reading
\* the inbox; the inbox is read only when there is no current command.
C1_NotConsumedUntilOk ==
  [][ /\ (current_command # None /\ current_command' = None)
           => (CmdReturns /\ op'.task = "cmd" /\ op'.ret = "Ok")
      /\ (CmdReturns /\ op'.ret = "Ignore")
           => (current_command' = current_command /\ inbox' = inbox)
      /\ (pc["cmd"] = "idle" /\ pc'["cmd"] # "idle" /\ current_command # None)
           => /\ current_command' = current_command
              /\ inbox' = inbox
              /\ pc'["cmd"] = "lock"
      /\ (Len(inbox') < Len(inbox)) => current_command = None
    ]_vars

\* C1 witness: the handler has just returned a non-fatal error, the command
\* is still the current one and a later command waits in the inbox.
C1_Witness ==
  /\ op.task = "cmd"
  /\ op.ret = "Ignore"
  /\ pc["cmd"] = "idle"
  /\ current_command # None
  /\ inbox # <<>>

\* C2: commands are processed in receipt order: the commands handled Ok are
\* the first ones sent, in the order sent, and the command the handler is (or
\* is about to be) invoked for is the one sent right after them, so that no
\* handler runs before the handlers of all earlier commands returned Ok.
C2_ReceiptOrder ==
  /\ \A i \in 1..Len(completed) : completed[i] = i
  /\ current_command # None => current_command.id = Len(completed) + 1
  /\ \A i \in 1..Len(inbox) :
       inbox[i].id
         = Len(completed) + (IF current_command # None THEN 1 ELSE 0) + i

\* C2 witness: the handler of the second command runs after the first
\* command's handler returned Ok, and a step of it has just failed.
C2_Witness ==
  /\ completed = <<1>>
  /\ current_command # None
  /\ current_command.id = 2
  /\ op.task = "cmd"
  /\ op.ret = "Ignore"

\* C3: should_clear_on_start changes from true to false only in the step in
\* which the clearing handler of a NewBlock command (schedule_packet_clearing
\* with the command's height, then the executor pass) returns Ok; when that
\* handler returns an error the latch is still true.
C3_LatchClearedOnlyOnSuccess ==
  [][ /\ (should_clear_on_start /\ ~should_clear_on_start')
           => /\ current_command # None
              /\ current_command.cmd.type = "NewBlock"
              /\ branch = "NewBlockStart"
              /\ scheduled_ok
              /\ CmdReturns
              /\ op' = Event("cmd", "process_pending_txs", None, "Ok", "Ok")
      /\ (branch = "NewBlockStart" /\ CmdReturns /\ op'.ret # "Ok")
           => (should_clear_on_start /\ should_clear_on_start')
    ]_vars

\* C3 witness: the latch was set at start and has just been cleared by a
\* NewBlock clearing whose executor pass completed.
C3_Witness ==
  /\ init_clear_on_start
  /\ ~should_clear_on_start
  /\ op = Event("cmd", "process_pending_txs", None, "Ok", "Ok")
  /\ current_command = None

\* C4 (as claimed): the latch is false if and only if at least one
\* schedule_packet_clearing call returned Ok since the worker started.
C4_FalseIffCleared == (~should_clear_on_start) <=> scheduled_ok

\* C4 (amended): the latch is false if and only if it was false at worker
\* start or the clearing handler of a NewBlock command taken while the latch
\* was set (schedule_packet_clearing and the executor pass) has returned Ok.
C4_FalseIffOffOrStartCleared ==
  /\ (~should_clear_on_start) <=> (~init_clear_on_start \/ start_cleared)
  /\ start_cleared => scheduled_ok

\* C4 witness: a clearing has been scheduled successfully (by
\* ClearPendingPackets, or by a NewBlock whose executor pass then failed)
\* and the latch is still set.
C4_Witness ==
  /\ scheduled_ok
  /\ should_clear_on_start
  /\ pc["cmd"] = "idle"
  /\ op.task = "cmd"
  /\ op.ret \in {"Ok", "Ignore"}

\* C5: with clear_interval = 0 the periodic path is never taken:
\* should_clear_packets(0, h) is false for every height, and once the latch
\* is false a NewBlock command never reaches schedule_packet_clearing.
C5_NoPeriodicClearingWhenZero ==
  /\ \A h \in Heights : ~should_clear_packets(0, h)
  /\ (/\ clear_interval = 0
      /\ ~should_clear_on_start
      /\ current_command # None
      /\ current_command.cmd.type = "NewBlock")
       => (~InHandler("cmd") /\ branch = "none")
  /\ (/\ clear_interval = 0
      /\ op.name = "schedule_packet_clearing"
      /\ op.arg.type = "Some")
       => should_clear_on_start

\* C5 witness: clear_interval is 0, the latch was cleared, and a NewBlock
\* command has just been handled as a no-op.
C5_Witness ==
  /\ clear_interval = 0
  /\ init_clear_on_start
  /\ ~should_clear_on_start
  /\ op.task = "cmd"
  /\ op.name = "none"
  /\ op.arg.type = "Some"
  /\ op.ret = "Ok"

\* C6: every LinkError of a link operation is classified into Fatal, if and
\* only if it is a client-expired or client-frozen error, or Ignore; after an
\* ignored error the task keeps running, and a task terminates only on an
\* expired-or-frozen error of its own link operation.
C6_ErrorClassification ==
  [][ /\ (op'.res \in ErrorKinds)
           => op'.ret = (IF op'.res \in ExpiredOrFrozen THEN "Fatal"
                         ELSE "Ignore")
      /\ (op'.ret = "Ignore") => status'[op'.task] = "running"
      /\ (op'.ret = "Fatal") => status'[op'.task] = "terminated"
      /\ \A t \in Tasks :
           (status[t] = "running" /\ status'[t] = "terminated")
             => (op'.task = t /\ op'.res \in ExpiredOrFrozen)
    ]_vars

\* C6 witness: execute_schedule has just failed with a broadcast error, which
\* was ignored, and the task runs on.
C6_Witness ==
  /\ op.name = "execute_schedule"
  /\ op.res = "TxBroadcast"
  /\ op.ret = "Ignore"
  /\ status[op.task] = "running"

\* C7 (as claimed): after the first Fatal error is reported by either task,
\* neither task performs any further operation on the link, and no second
\* Fatal error is emitted.
C7_WorkerStopsAtFirstFatal ==
  [][ (fatal_count >= 1) => (op'.name \notin LinkOps /\ fatal_count' = fatal_count)
    ]_vars

\* C8 (as claimed): once the command task has polled the closed, empty inbox
\* it is terminated.
C8_ClosedInboxTerminates == closed_polls => status["cmd"] = "terminated"

\* C9: the two tasks never operate on the link at the same time: a task is
\* inside a handler exactly while it holds the mutex, and every link
\* operation is performed by the holder of the mutex, which keeps it until
\* the handler returns.
C9_LinkOpsUnderLock ==
  /\ [](\A t \in Tasks : InHandler(t) <=> lock = t)
  /\ [][ (op'.name \in LinkOps)
           => /\ lock = op'.task
              /\ lock' = (IF op'.ret = "none" THEN lock ELSE "free")
       ]_vars

\* C9 witness: the command task waits for the mutex while the tick task is
\* in the middle of its executor pass.
C9_Witness ==
  /\ pc["cmd"] = "lock"
  /\ lock = "tick"
  /\ pc["tick"] = "execute_schedule"
  /\ op = Event("tick", "refresh_schedule", None, "Ok", "none")

\* C10: a NewBlock{height} command leads to schedule_packet_clearing with
\* Some(height) exactly when the latch is set, or clear_interval is not 0 and
\* height mod clear_interval is 0; otherwise it returns Ok without any link
\* operation and leaves the latch unchanged.
C10_NewBlockDispatch ==
  [][ /\ (/\ pc["cmd"] = "lock"
          /\ pc'["cmd"] # "lock"
          /\ current_command.cmd.type = "NewBlock")
           => IF \/ should_clear_on_start
                 \/ /\ clear_interval # 0
                    /\ current_command.cmd.height.revision_height
                         % clear_interval = 0
              THEN /\ pc'["cmd"] = "schedule_packet_clearing"
                   /\ lock' = "cmd"
                   /\ current_command' = current_command
                   /\ UNCHANGED should_clear_on_start
              ELSE /\ pc'["cmd"] = "idle"
                   /\ op'.name = "none"
                   /\ op'.ret = "Ok"
                   /\ lock' = lock
                   /\ current_command' = None
                   /\ UNCHANGED should_clear_on_start
      /\ (/\ current_command # None
          /\ current_command.cmd.type = "NewBlock"
          /\ op'.task = "cmd"
          /\ op'.name \in LinkOps)
           => /\ branch \in {"NewBlockStart", "NewBlockInterval"}
              /\ (op'.name = "schedule_packet_clearing")
                   => op'.arg = [type |-> "Some",
                                 height |-> current_command.cmd.height]
    ]_vars

\* C10 witness: a NewBlock whose height is not a multiple of the non-zero
\* clear_interval has just been handled as a no-op with the latch off.
C10_Witness ==
  /\ clear_interval = 2
  /\ ~should_clear_on_start
  /\ op = Event("cmd", "none",
                [type |-> "Some",
                 height |-> [revision_number |-> 0, revision_height |-> 1]],
                "none", "Ok")

\* Number of times x occurs in sequence q.
Count(q, x) == Cardinality({i \in DOMAIN q : q[i] = x})

SchedOps == {"update_schedule", "schedule_packet_clearing"}

\* C11 (as claimed): every invocation of handle_packet_cmd that returns Ok
\* has run refresh_schedule and execute_schedule on the link (and ended its
\* executor pass with process_pending_txs).
C11_EveryCommandRunsExecutor ==
  [][ (CmdReturns /\ op'.task = "cmd" /\ op'.ret = "Ok")
        => /\ Count(trace["cmd"], "refresh_schedule") = 1
           /\ Count(trace["cmd"], "execute_schedule") = 1
           /\ op'.name = "process_pending_txs"
    ]_vars

\* C17: every executor pass calls refresh_schedule, execute_schedule and
\* process_pending_txs in that order and at most once each: a failed
\* refresh_schedule or execute_schedule ends the pass with that error, and
\* process_pending_txs always ends it with Ok.
C17_ExecutorPassOrder ==
  [][ \A t \in Tasks :
        (op'.task = t /\ op'.name \in LinkOps)
          => LET tr == trace[t]
                 n == Len(tr)
             IN
             /\ (t = "tick" /\ n = 0) => op'.name = "refresh_schedule"
             /\ (op'.name = "refresh_schedule")
                  => /\ tr \in {<<>>} \cup {<<o>> : o \in SchedOps}
                     /\ (op'.res = "Ok")
                          => pc'[t] = "execute_schedule"
                     /\ (op'.res # "Ok")
                          => (pc'[t] = "idle" /\ op'.ret \in {"Ignore", "Fatal"})
             /\ (op'.name = "execute_schedule")
                  => /\ n >= 1
                     /\ tr[n] = "refresh_schedule"
                     /\ Count(tr, "refresh_schedule") = 1
                     /\ Count(tr, "execute_schedule") = 0
                     /\ (op'.res = "Ok")
                          => pc'[t] = "process_pending_txs"
                     /\ (op'.res # "Ok")
                          => (pc'[t] = "idle" /\ op'.ret \in {"Ignore", "Fatal"})
             /\ (op'.name = "process_pending_txs")
                  => /\ n >= 2
                     /\ tr[n] = "execute_schedule"
                     /\ tr[n - 1] = "refresh_schedule"
                     /\ Count(tr, "process_pending_txs") = 0
                     /\ op'.res = "Ok"
                     /\ op'.ret = "Ok"
                     /\ pc'[t] = "idle"
    ]_vars

\* C17 witness: the tick task's execute_schedule has just failed, and the
\* pass has ended without process_pending_txs.
C17_Witness ==
  /\ op = Event("tick", "execute_schedule", None, "TxBroadcast", "Ignore")
  /\ pc["tick"] = "idle"
  /\ lock = "free"

\* C18: an IbcEvents{batch} command calls update_schedule(batch) and a
\* ClearPendingPackets command schedule_packet_clearing(None), as the first
\* link operation of the handler; the executor pass follows, once, only if
\* that call returned Ok, and its error is returned as the command's error,
\* Fatal if expired-or-frozen and continuable otherwise.
C18_ScheduleThenOnePass ==
  [][ (current_command # None
         /\ current_command.cmd.type \in {"IbcEvents", "ClearPendingPackets"})
        => LET c == current_command.cmd
               sched == IF c.type = "IbcEvents" THEN "update_schedule"
                        ELSE "schedule_packet_clearing"
               arg == IF c.type = "IbcEvents"
                      THEN [type |-> "Batch", batch |-> c.batch]
                      ELSE None
           IN
           /\ (pc["cmd"] = "lock" /\ pc'["cmd"] # "lock")
                => (pc'["cmd"] = sched /\ trace'["cmd"] = <<>>)
           /\ (op'.task = "cmd" /\ op'.name \in LinkOps)
                => /\ (trace["cmd"] = <<>>) <=> (op'.name = sched)
                   /\ (op'.name = sched) => op'.arg = arg
                   /\ (op'.name = sched /\ op'.res = "Ok")
                        => pc'["cmd"] = "refresh_schedule"
                   /\ (op'.name = sched /\ op'.res # "Ok")
                        => /\ pc'["cmd"] = "idle"
                           /\ op'.ret = (IF op'.res \in ExpiredOrFrozen
                                         THEN "Fatal" ELSE "Ignore")
                           /\ current_command' = current_command
           /\ (CmdReturns /\ op'.ret = "Ok")
                => /\ trace["cmd"]
                        = <<sched, "refresh_schedule", "execute_schedule">>
                   /\ op'.name = "process_pending_txs"
    ]_vars

\* C18 witness: update_schedule(batch 1) has just failed with a broadcast
\* error, returned as the (continuable) error of the IbcEvents command.
C18_Witness ==
  /\ op = Event("cmd", "update_schedule", [type |-> "Batch", batch |-> 1],
                "TxBroadcast", "Ignore")
  /\ current_command # None
  /\ current_command.cmd = [type |-> "IbcEvents", batch |-> 1]
  /\ status["cmd"] = "running"

\* C19: when the executor pass fails after the scheduling call of a command
\* returned Ok, the command is kept, and the retry runs the whole handler
\* again: the dispatch leads to the scheduling call, made with the same
\* batch or the same height hint, before any executor operation.
C19_RetryReschedules ==
  [][ /\ (~sched_done /\ sched_done')
           => /\ current_command' = current_command
              /\ current_command # None
              /\ trace["cmd"][1] \in SchedOps
              /\ op'.name \in {"refresh_schedule", "execute_schedule"}
      /\ (sched_done /\ pc["cmd"] = "lock" /\ pc'["cmd"] # "lock")
           => (pc'["cmd"] \in SchedOps /\ trace'["cmd"] = <<>>)
      /\ (sched_done /\ op'.task = "cmd" /\ op'.name \in LinkOps
            /\ trace["cmd"] = <<>>)
           => /\ op'.name \in SchedOps
              /\ LET c == current_command.cmd IN
                   op'.arg = (CASE c.type = "IbcEvents"
                                     -> [type |-> "Batch", batch |-> c.batch]
                                [] c.type = "NewBlock"
                                     -> [type |-> "Some", height |-> c.height]
                                [] OTHER -> None)
    ]_vars

\* C19 witness: after an attempt that failed past its scheduling call, the
\* scheduling call of the same command has been made again and returned Ok.
C19_Witness ==
  /\ sched_done
  /\ op.task = "cmd"
  /\ op.name \in SchedOps
  /\ op.res = "Ok"
  /\ pc["cmd"] = "refresh_schedule"

\* C20: the latch is monotone and touched only by NewBlock: it never goes
\* from false to true, and it changes only in a step of the command task
\* handling a NewBlock command; IbcEvents and ClearPendingPackets commands
\* and tick passes leave it unchanged.
C20_LatchMonotone ==
  [][ /\ (~should_clear_on_start) => ~should_clear_on_start'
      /\ (should_clear_on_start' # should_clear_on_start)
           => /\ op'.task = "cmd"
              /\ current_command # None
              /\ current_command.cmd.type = "NewBlock"
    ]_vars

\* C20 witness: the only command sent, necessarily ClearPendingPackets, was
\* handled Ok with its clearing scheduled, and the latch is still set.
C20_Witness ==
  /\ sent = 1
  /\ completed = <<1>>
  /\ scheduled_ok
  /\ should_clear_on_start
  /\ op = Event("cmd", "process_pending_txs", None, "Ok", "Ok")

\* The command task's current command is an IbcEvents batch for sequence s.
EventsCurrent(s) ==
  /\ current_command # None
  /\ current_command.cmd.type = "IbcEvents"
  /\ PacketOf(current_command.cmd.batch) = s

Broadcast(s) == pkt[s] \in {"inflight", "received"}

\* No Fatal error occurs.
NoFatalEver == [](fatal_count = 0)

\* Sequence s gets operational data in this step.
Scheduled(s) == pkt[s] \in Unscheduled /\ pkt'[s] \notin Unscheduled

\* With clear_on_start = false and clear_interval = 0 no NewBlock and no
\* IbcEvents command schedules a clearing: the only clearing is that of a
\* ClearPendingPackets command (height None), and without one the packet
\* sent before the start stays unscheduled.
NoClearingByChainCommands ==
  /\ [][ op'.name = "schedule_packet_clearing" => op'.arg = None ]_vars
  /\ [][ Scheduled(1) =>
           /\ op'.name = "schedule_packet_clearing"
           /\ current_command.cmd.type = "ClearPendingPackets"
       ]_vars

StartClearingDue ==
  /\ should_clear_on_start
  /\ current_command # None
  /\ current_command.cmd.type = "NewBlock"

\* A clearing attempt of the NewBlock arm that fails with a non-fatal error
\* leaves the latch set and the command current: it is attempted again.
ClearingAttemptedAgain ==
  [][ (branch = "NewBlockStart" /\ op'.task = "cmd" /\ op'.ret = "Ignore")
        => (should_clear_on_start' /\ current_command' = current_command)
    ]_vars

\* A packet dropped on a timeout is scheduled again only by a clearing.
DroppedUntilCleared ==
  [][ (pkt[1] = "dropped" /\ pkt'[1] # "dropped")
        => (op'.name = "schedule_packet_clearing" /\ op'.res = "Ok")
    ]_vars

NewBlockArrived ==
  \/ current_command # None /\ current_command.cmd.type = "NewBlock"
  \/ \E i \in DOMAIN inbox : inbox[i].cmd.type = "NewBlock"

\* No link operation of a clearing attempt fails forever.
ClearingFair ==
  /\ SF_vars(SchedOk /\ pc["cmd"] = "schedule_packet_clearing")
  /\ SF_vars(RefreshOk("cmd") /\ branch # "IbcEvents")
  /\ SF_vars(ExecuteOk("cmd") /\ branch # "IbcEvents")

\* No NewBlock is treated as a periodic clearing or as a no-op before the
\* clearing of a worker started with clear_on_start has returned Ok.
StartClearingFirst ==
  [][ (init_clear_on_start
         /\ \/ branch' = "NewBlockInterval"
            \/ (op'.task = "cmd" /\ op'.name = "none"
                  /\ op'.arg.type = "Some"))
        => start_cleared
    ]_vars

\* C14 (as claimed): started with clear_on_start, with a NewBlock command
\* arrived, no Fatal error and no clearing attempt failing forever, the
\* latch is eventually cleared; and no NewBlock is treated as a no-op or as
\* a periodic clearing before a clearing has returned Ok.
C14_AtLeastOnceClearing ==
  /\ ClearingFair =>
       ((init_clear_on_start /\ NewBlockArrived) ~> ~should_clear_on_start)
  /\ StartClearingFirst

\* C14 (amended): the same, provided that no link operation of any command
\* fails forever: the command task retries its current command until it
\* returns Ok, so an event batch that keeps failing keeps every NewBlock
\* behind it in the inbox.
C14_AtLeastOnceClearingNoStuckCommand ==
  /\ CmdLinkFair =>
       ((init_clear_on_start /\ NewBlockArrived) ~> ~should_clear_on_start)
  /\ StartClearingFirst

\* C14 witness: the latch was cleared by a first NewBlock, and a later
\* NewBlock is being handled as a periodic clearing.
C14_Witness ==
  /\ init_clear_on_start
  /\ ~should_clear_on_start
  /\ start_cleared
  /\ branch = "NewBlockInterval"

\* C22: should_clear_packets never computes a remainder by zero: for
\* clear_interval = 0 it computes no remainder and returns false, and for
\* clear_interval # 0 it returns true exactly when revision_height mod
\* clear_interval = 0 (so for revision_height = 0), whatever revision_number.
C22_NoRemainderByZero ==
  eval # None =>
    /\ eval.divisor # None => eval.divisor.value # 0
    /\ eval.interval = 0 => (eval.divisor = None /\ ~eval.result)
    /\ eval.interval # 0 =>
         /\ eval.divisor = Some(eval.interval)
         /\ eval.result = (eval.height.revision_height % eval.interval = 0)
         /\ eval.height.revision_height = 0 => eval.result
    /\ \A n \in 0..MaxRevisionNumber :
         eval.result =
           should_clear_packets(eval.interval,
                                [eval.height EXCEPT !.revision_number = n])

\* C22 witness: should_clear_packets was evaluated for clear_interval = 0
\* and revision_height = 0, where the remainder would be 0 mod 0.
C22_Witness ==
  /\ eval # None
  /\ eval.interval = 0
  /\ eval.height.revision_height = 0
  /\ eval.height.revision_number = 1
  /\ ~eval.result

\* Command i was handled successfully: handle_packet_cmd returned Ok for it.
Handled(i) == \E k \in DOMAIN completed : completed[k] = i

\* Command i is the current command: received from the inbox, not yet handled
\* successfully.
Dispatched(i) == current_command # None /\ current_command.id = i

\* The handler of each command eventually returns Ok.
HandlersSucceed == \A i \in 1..MaxCmds : (Dispatched(i) ~> Handled(i))

\* C21: with the command task scheduled fairly and no fatal error, if the
\* handler of each command eventually returns Ok (after finitely many
\* non-fatal failures), every command placed in the inbox is eventually
\* handled successfully; so it is if the tick task is scheduled fairly too
\* and no link operation of the command task fails forever. A command is
\* dispatched only after every earlier command was handled successfully, so
\* a command whose handler never succeeds keeps every later command from
\* being dispatched.
C21_EveryCommandHandled ==
  /\ HandlersSucceed => \A i \in 1..MaxCmds : ((sent >= i) ~> Handled(i))
  /\ (SF_vars(TickTask) /\ CmdLinkFair) =>
       \A i \in 1..MaxCmds : ((sent >= i) ~> Handled(i))
  /\ [](\A j \in 1..MaxCmds :
          Dispatched(j) => \A i \in 1..(j - 1) : Handled(i))

\* C21 witness: two commands were placed in the inbox and handled successfully
\* in order, the second by the step that has just returned.
C21_Witness ==
  /\ completed = <<1, 2>>
  /\ current_command = None
  /\ op.task = "cmd"
  /\ op.ret = "Ok"

====
